---- MODULE Spec2Model ----
(***************************************************************************)
(* Model of the financial research agent: the tool registry composed in    *)
(* tools/__init__.py, the tool executor execute_tool, the agentic loop     *)
(* run_agent and the interactive session loop main of agent.py.            *)
(*                                                                         *)
(* Strings are sequences of tokens, so that concatenation is \o and the    *)
(* order of concatenated pieces is observable.                             *)
(***************************************************************************)
EXTENDS Integers, Sequences, FiniteSets, TLC

VARIABLES
    market_tools,          \* market_tools.py: the market group's (name, handler) entries
    regime_name,           \* regime_tool.py: name under which the regime tool is contributed
    news_name,             \* news_tool.py: name under which the news tool is contributed
    TOOL_SCHEMAS,          \* tools/__init__.py: the schema catalog (sequence of names)
    TOOL_HANDLERS,         \* tools/__init__.py: the registry, name -> handler
    pc,                    \* position of the process
    conversation_history,  \* main: the session's conversation
    messages,              \* run_agent: the conversation of the running call
    iteration,             \* run_agent: loop counter of the running call
    stop_reason,           \* run_agent: stop reason of the response last received
    block_idx,             \* run_agent: position of the inner for loop in response.content
    tool_results,          \* run_agent: results collected in the running round
    response_text,         \* main: the text run_agent returned last
    exc,                   \* the exception raised last ("none" when none)
    turns,                 \* number of run_agent calls made in the session
    responses_left,        \* responses the completion client still gives in the session
    blocks_left            \* content blocks the completion client may still produce

vars == <<market_tools, regime_name, news_name, TOOL_SCHEMAS, TOOL_HANDLERS, pc,
          conversation_history, messages, iteration, stop_reason,
          block_idx, tool_results, response_text, exc, turns, responses_left,
          blocks_left>>

registry == <<market_tools, regime_name, news_name, TOOL_SCHEMAS, TOOL_HANDLERS>>
frame == <<messages, iteration, stop_reason, block_idx, tool_results>>
budget == <<turns, responses_left, blocks_left>>

(***************************************************************************)
(* Bounds of the model.  A completion request left unanswered when the     *)
(* client's responses are used up is a call that has not returned; it can  *)
(* still fail or be interrupted.                                           *)
(***************************************************************************)
MaxTurns == 2          \* run_agent calls per session
MaxResponses == 11     \* responses of the completion client per session
MaxBlocks == 2         \* content blocks in one response
MaxBlocksTotal == 2    \* content blocks the client produces in one session
MaxRichIterations == 2 \* iterations of a run whose responses may carry content blocks
MaxMarketTools == 2    \* entries of a market group drawn for the registry composition

(***************************************************************************)
(* Program constants.                                                      *)
(***************************************************************************)
MAX_ITERATIONS == 10

MaxIterationsMessage == <<"Agent reached maximum iterations without completing.">>
UnexpectedStopPrefix == "Agent stopped unexpectedly: "

(***************************************************************************)
(* Tool registry: tools/__init__.py composes the schema catalog and the    *)
(* handler table from the market group, the regime tool and the news tool. *)
(***************************************************************************)
MarketFunctions == <<"get_stock_data", "get_company_info", "get_technical_indicators">>

\* market_tools.py: the schemas and handlers the market group contributes
MarketGroup ==
    [i \in 1..3 |-> [name |-> MarketFunctions[i], handler |-> MarketFunctions[i]]]

RegimeHandler == "detect_market_regime"
NewsHandler == "get_stock_news"

EmptyDict == [k \in {} |-> ""]

\* a dict literal: of two entries with the same key the later one stays
DictLiteral(entries) ==
    LET keys == {entries[i].name : i \in DOMAIN entries}
        last(k) == CHOOSE i \in DOMAIN entries :
                      /\ entries[i].name = k
                      /\ \A j \in DOMAIN entries : entries[j].name = k => j <= i
    IN [k \in keys |-> entries[last(k)].handler]

MARKET_SCHEMAS == [i \in DOMAIN market_tools |-> market_tools[i].name]
MARKET_HANDLERS == DictLiteral(market_tools)

\* TOOL_SCHEMAS = MARKET_SCHEMAS + [REGIME_TOOL_SCHEMA, NEWS_TOOL_SCHEMA]
ComposeSchemas == MARKET_SCHEMAS \o <<regime_name, news_name>>

\* TOOL_HANDLERS = {**MARKET_HANDLERS, regime: ..., news: ...}: later keys win
ComposeHandlers ==
    (news_name :> NewsHandler) @@ (regime_name :> RegimeHandler) @@ MARKET_HANDLERS

\* every (name, handler) pair some group contributes
Contributions ==
    {<<market_tools[i].name, market_tools[i].handler>> : i \in DOMAIN market_tools}
        \cup {<<regime_name, RegimeHandler>>, <<news_name, NewsHandler>>}

(***************************************************************************)
(* Tool handlers: their parameters decide whether the keyword call of the *)
(* handler binds; their bodies catch their own failures and return an      *)
(* error dict.                                                             *)
(***************************************************************************)
Params(fn) ==
    IF fn = "get_stock_data" THEN {"ticker", "period"} ELSE {"ticker"}

Required(fn) ==
    IF fn = "detect_market_regime" THEN {} ELSE {"ticker"}

\* the keyword call of the handler binds iff no required parameter is missing and no
\* keyword is unexpected
Binds(fn, tool_input) ==
    /\ Required(fn) \subseteq tool_input
    /\ tool_input \subseteq Params(fn)

ErrorPrefix(fn) ==
    CASE fn = "detect_market_regime" -> "Regime detection failed: "
      [] fn = "get_stock_news" -> "Failed to fetch news: "
      [] OTHER -> ""

\* the dict a handler returns: its data, or {"error": ...} when its body fails
HandlerResult(fn, env) ==
    IF env = "ok" THEN <<"ticker", fn>>
    ELSE <<"error", ErrorPrefix(fn), "exception">>

json_dumps(result) == <<"{">> \o result \o <<"}">>

Returned(value) == [raised |-> "none", value |-> value]
Raised(e) == [raised |-> e, value |-> <<>>]

\* execute_tool looking the handler up with TOOL_HANDLERS[tool_name]
execute_tool_Subscript(tool_name, tool_input, env) ==
    IF tool_name \notin DOMAIN TOOL_HANDLERS
    THEN Raised("KeyError")
    ELSE LET handler == TOOL_HANDLERS[tool_name]
         IN IF ~Binds(handler, tool_input)
            THEN Raised("TypeError")
            ELSE Returned(json_dumps(HandlerResult(handler, env)))

\* tools/__init__.py execute_tool: what the call returns, or what it raises
execute_tool(tool_name, tool_input, env) ==
    IF tool_name \notin DOMAIN TOOL_HANDLERS
    THEN Returned(json_dumps(<<"error", "Unknown tool: ", tool_name>>))
    ELSE LET handler == TOOL_HANDLERS[tool_name]
         IN IF ~Binds(handler, tool_input)
            THEN Raised("TypeError")
            ELSE Returned(json_dumps(HandlerResult(handler, env)))

IsErrorPayload(s) == Len(s) >= 2 /\ s[1] = "{" /\ s[2] = "error"

(***************************************************************************)
(* Content blocks and messages.  A block is a record with one shape for    *)
(* all its types: id is block.id of a tool_use block and tool_use_id of a  *)
(* tool_result block; text is the body of a text block, the content of a   *)
(* tool_result block and the string of a plain user message.               *)
(***************************************************************************)
NoId == <<0, 0>>

TextBlock(body) ==
    [type |-> "text", id |-> NoId, name |-> "", input |-> {}, text |-> body]

ToolUseBlock(id, name, input) ==
    [type |-> "tool_use", id |-> id, name |-> name, input |-> input, text |-> <<>>]

ToolResultBlock(tool_use_id, content) ==
    [type |-> "tool_result", id |-> tool_use_id, name |-> "", input |-> {},
     text |-> content]

PlainText(str) ==
    [type |-> "str", id |-> NoId, name |-> "", input |-> {}, text |-> <<str>>]

UserMessage(user_message) == [role |-> "user", content |-> <<PlainText(user_message)>>]
AssistantMessage(content) == [role |-> "assistant", content |-> content]
\* the tool results appended under the assistant role
ToolResultsMessage_AssistantRole(results) == [role |-> "assistant", content |-> results]

ToolResultsMessage(results) == [role |-> "user", content |-> results]

\* hasattr(block, "text"): text blocks carry a text attribute, tool_use blocks none
HasText(block) == block.type = "text"

(***************************************************************************)
(* The completion client: what a response may carry.  The client numbers   *)
(* its tool calls itself; an id is the place of the call in the            *)
(* conversation, so the ids of a conversation are pairwise distinct.       *)
(***************************************************************************)
StopReasons == {"tool_use", "end_turn", "max_tokens"}
TextBodies == {<<"A">>, <<"B">>}
RequestedNames == {"get_stock_data", "no_such_tool"}
ArgKeySets == {{}, {"ticker"}, {"ticker", "bogus"}}
HandlerOutcomes == {"ok", "fail"}

ProtoBlocks ==
    {TextBlock(b) : b \in TextBodies}
        \cup {ToolUseBlock(NoId, n, a) : n \in RequestedNames, a \in ArgKeySets}

ProtoContents(max) == UNION {[1..k -> ProtoBlocks] : k \in 0..max}

\* the content of the response to a request that sent `sent`
ResponseContent(proto, sent) ==
    [i \in DOMAIN proto |->
        IF proto[i].type = "tool_use"
        THEN [proto[i] EXCEPT !.id = <<Len(sent) + 1, i>>]
        ELSE proto[i]]

Min(a, b) == IF a < b THEN a ELSE b

\* the contents the client may answer the outstanding request with
Contents ==
    ProtoContents(IF iteration < MaxRichIterations THEN Min(MaxBlocks, blocks_left)
                  ELSE 0)

(***************************************************************************)
(* Initial states.                                                         *)
(***************************************************************************)
InitSession ==
    /\ TOOL_SCHEMAS = <<>>
    /\ TOOL_HANDLERS = EmptyDict
    /\ pc = "import"
    /\ conversation_history = <<>>
    /\ messages = <<>>
    /\ iteration = 0
    /\ stop_reason = "none"
    /\ block_idx = 0
    /\ tool_results = <<>>
    /\ response_text = <<>>
    /\ exc = "none"
    /\ turns = 0
    /\ responses_left = MaxResponses
    /\ blocks_left = MaxBlocksTotal

\* the program as written: the three groups contribute five distinct names
Init ==
    /\ market_tools = MarketGroup
    /\ regime_name = "detect_market_regime"
    /\ news_name = "get_stock_news"
    /\ InitSession

(***************************************************************************)
(* import tools: tools/__init__.py builds TOOL_SCHEMAS and TOOL_HANDLERS.  *)
(***************************************************************************)
ImportTools ==
    /\ pc = "import"
    /\ TOOL_SCHEMAS' = ComposeSchemas
    /\ TOOL_HANDLERS' = ComposeHandlers
    /\ pc' = "prompt"
    /\ UNCHANGED <<market_tools, regime_name, news_name, conversation_history,
                   response_text, exc>>
    /\ UNCHANGED <<frame, budget>>

(***************************************************************************)
(* main: one line read at the prompt.                                      *)
(***************************************************************************)
Lines == {"", "quit", "exit", "q", "Clear", "Analyze AAPL"}

lower(line) ==
    CASE line = "Clear" -> "clear"
      [] line = "Analyze AAPL" -> "analyze aapl"
      [] OTHER -> line

IsQuit(line) == lower(line) \in {"quit", "exit", "q"}
IsClear(line) == lower(line) = "clear"
IsQuestion(line) == line # "" /\ ~IsQuit(line) /\ ~IsClear(line)

ResetFrame ==
    /\ messages' = <<>>
    /\ iteration' = 0
    /\ block_idx' = 0
    /\ tool_results' = <<>>

\* the process has ended: its variables are gone
Terminated ==
    /\ conversation_history' = <<>>
    /\ response_text' = <<>>
    /\ stop_reason' = "none"
    /\ ResetFrame

\* if not user_input: continue
EmptyInput ==
    /\ pc = "prompt"
    /\ \E user_input \in Lines : user_input = ""
    /\ exc' = "none"
    /\ UNCHANGED <<registry, pc, conversation_history, response_text>>
    /\ UNCHANGED <<frame, budget>>

\* quit / exit / q: break
Quit ==
    /\ pc = "prompt"
    /\ \E user_input \in Lines : IsQuit(user_input)
    /\ pc' = "exited"
    /\ exc' = "none"
    /\ Terminated
    /\ UNCHANGED <<registry, budget>>

\* clear: conversation_history = []
Clear ==
    /\ pc = "prompt"
    /\ \E user_input \in Lines : IsClear(user_input)
    /\ conversation_history' = <<>>
    /\ exc' = "none"
    /\ UNCHANGED <<registry, pc, response_text>>
    /\ UNCHANGED <<frame, budget>>

\* Ctrl-C while console.input waits, outside the try: main ends
PromptInterrupt ==
    /\ pc = "prompt"
    /\ pc' = "crashed"
    /\ exc' = "KeyboardInterrupt"
    /\ Terminated
    /\ UNCHANGED <<registry, budget>>

(***************************************************************************)
(* run_agent.                                                              *)
(***************************************************************************)
\* main calls run_agent(user_input, conversation_history); the call builds
\* messages and issues the first completion request
StartTurn ==
    /\ pc = "prompt"
    /\ turns < MaxTurns
    /\ \E user_input \in Lines :
        /\ IsQuestion(user_input)
        /\ messages' = conversation_history \o <<UserMessage(user_input)>>
    /\ iteration' = 0
    /\ stop_reason' = "none"
    /\ block_idx' = 0
    /\ tool_results' = <<>>
    /\ exc' = "none"
    /\ pc' = "awaiting"
    /\ turns' = turns + 1
    /\ UNCHANGED <<registry, conversation_history, response_text, responses_left,
                   blocks_left>>

\* final_text = block.text + final_text in place of final_text += block.text
RECURSIVE FinalText_Front(_)
FinalText_Front(content) ==
    IF content = <<>> THEN <<>>
    ELSE FinalText_Front(Tail(content))
            \o (IF HasText(Head(content)) THEN Head(content).text ELSE <<>>)

\* final_text += block.text for every block that has a text
RECURSIVE FinalText(_)
FinalText(content) ==
    IF content = <<>> THEN <<>>
    ELSE (IF HasText(Head(content)) THEN Head(content).text ELSE <<>>)
            \o FinalText(Tail(content))

\* the diagnostic without the stop reason
StopDiagnostic_Fixed(sr) == <<UnexpectedStopPrefix>>

\* f"Agent stopped unexpectedly: {response.stop_reason}"
StopDiagnostic(sr) == <<UnexpectedStopPrefix, sr>>

\* tool_results.insert(0, ...) in place of tool_results.append(...)
AppendResult_Front(results, block, result) ==
    <<ToolResultBlock(block.id, result)>> \o results

\* a tool_result appended without the id of its block
AppendResult_NoId(results, block, result) ==
    Append(results, ToolResultBlock(NoId, result))

\* tool_results.append({"type": "tool_result", "tool_use_id": block.id, ...})
AppendResult(results, block, result) ==
    Append(results, ToolResultBlock(block.id, result))

\* the messages of the run alone returned, without the conversation passed in
Return_NewOnly(text, conversation) ==
    /\ response_text' = text
    /\ conversation_history' =
          SubSeq(conversation, Len(conversation_history) + 1, Len(conversation))
    /\ pc' = "prompt"
    /\ ResetFrame

\* the response appended before the diagnostic is returned
ConversationAtStop_Appended(msgs) == Append(msgs, AssistantMessage(<<>>))

\* return f"Agent stopped unexpectedly: ...", messages: the response is not appended
ConversationAtStop(msgs) == msgs

\* conversation_history += [...] in place of conversation_history + [...]: the
\* list passed in is the list the run appends to
InputListAfterCall_InPlace(history, msgs) == msgs

\* messages = conversation_history + [...] builds a new list: the list main
\* passed in, and still holds when the call raises, keeps its contents
InputListAfterCall(history, msgs) == history

\* after the for loop over response.content: every block has been processed
RoundDone_FirstBlock(idx, content) == idx > Min(1, Len(content))

RoundDone(idx, content) == idx > Len(content)

\* return value of run_agent, assigned by main to (response_text, conversation_history)
Return(text, conversation) ==
    /\ response_text' = text
    /\ conversation_history' = conversation
    /\ pc' = "prompt"
    /\ ResetFrame

\* stop_reason == "tool_use": append the response, start the tool round
RespondToolUse ==
    /\ pc = "awaiting"
    /\ responses_left > 0
    /\ responses_left' = responses_left - 1
    /\ \E proto \in Contents :
        /\ messages' = Append(messages, AssistantMessage(ResponseContent(proto, messages)))
        /\ blocks_left' = blocks_left - Len(proto)
    /\ stop_reason' = "tool_use"
    /\ tool_results' = <<>>
    /\ block_idx' = 1
    /\ pc' = "tools"
    /\ UNCHANGED <<registry, conversation_history, iteration,
                   response_text, exc, turns>>

\* stop_reason == "end_turn": return the text of the response and the conversation
RespondEndTurn ==
    /\ pc = "awaiting"
    /\ responses_left > 0
    /\ responses_left' = responses_left - 1
    /\ \E proto \in Contents :
        LET content == ResponseContent(proto, messages)
        IN /\ Return(FinalText(content), Append(messages, AssistantMessage(content)))
           /\ blocks_left' = blocks_left - Len(proto)
    /\ stop_reason' = "end_turn"
    /\ UNCHANGED <<registry, exc, turns>>

\* any other stop reason: return the diagnostic and the conversation so far
RespondOther ==
    /\ pc = "awaiting"
    /\ responses_left > 0
    /\ responses_left' = responses_left - 1
    /\ \E sr \in StopReasons \ {"tool_use", "end_turn"} :
        /\ stop_reason' = sr
        /\ Return(StopDiagnostic(sr), ConversationAtStop(messages))
    /\ UNCHANGED <<registry, exc, turns, blocks_left>>

\* client.messages.create raises anthropic.APIError; main catches it
RaiseAPIError ==
    /\ pc = "awaiting"
    /\ exc' = "APIError"
    /\ pc' = "prompt"
    /\ stop_reason' = "none"
    /\ conversation_history' = InputListAfterCall(conversation_history, messages)
    /\ ResetFrame
    /\ UNCHANGED <<registry, response_text>>
    /\ UNCHANGED budget

\* Ctrl-C during the turn; main catches KeyboardInterrupt
TurnInterrupt ==
    /\ pc \in {"awaiting", "tools"}
    /\ exc' = "KeyboardInterrupt"
    /\ pc' = "prompt"
    /\ stop_reason' = "none"
    /\ conversation_history' = InputListAfterCall(conversation_history, messages)
    /\ ResetFrame
    /\ UNCHANGED <<registry, response_text>>
    /\ UNCHANGED budget

\* response.content of the round in progress
RoundContent == messages[Len(messages)].content

\* for block in response.content: a block that is no tool_use is passed over
SkipBlock ==
    /\ pc = "tools"
    /\ block_idx <= Len(RoundContent)
    /\ RoundContent[block_idx].type # "tool_use"
    /\ block_idx' = block_idx + 1
    /\ UNCHANGED <<registry, pc, conversation_history, messages,
                   iteration, stop_reason, tool_results, response_text, exc>>
    /\ UNCHANGED budget

\* a tool_use block: execute_tool, then tool_results.append.  What
\* execute_tool raises leaves run_agent, and main, which catches neither
ToolCall ==
    /\ pc = "tools"
    /\ block_idx <= Len(RoundContent)
    /\ RoundContent[block_idx].type = "tool_use"
    /\ \E env \in HandlerOutcomes :
        LET block == RoundContent[block_idx]
            result == execute_tool(block.name, block.input, env)
        IN IF result.raised = "none"
           THEN /\ tool_results' = AppendResult(tool_results, block, result.value)
                /\ block_idx' = block_idx + 1
                /\ UNCHANGED <<pc, exc, conversation_history, messages, iteration,
                               stop_reason, response_text>>
           ELSE /\ exc' = result.raised
                /\ pc' = "crashed"
                /\ Terminated
    /\ UNCHANGED <<registry, budget>>

\* after the last block: append the results, issue the next completion request
FinishRound ==
    /\ pc = "tools"
    /\ RoundDone(block_idx, RoundContent)
    /\ iteration + 1 < MAX_ITERATIONS
    /\ messages' = Append(messages, ToolResultsMessage(tool_results))
    /\ iteration' = iteration + 1
    /\ pc' = "awaiting"
    /\ UNCHANGED <<registry, conversation_history, stop_reason,
                   block_idx, tool_results, response_text, exc>>
    /\ UNCHANGED budget

\* after the last block of the last iteration: the for loop ends, the sentinel
\* is returned
ExhaustIterations ==
    /\ pc = "tools"
    /\ RoundDone(block_idx, RoundContent)
    /\ iteration + 1 >= MAX_ITERATIONS
    /\ Return(MaxIterationsMessage, Append(messages, ToolResultsMessage(tool_results)))
    /\ UNCHANGED <<registry, stop_reason, exc>>
    /\ UNCHANGED budget

Next ==
    \/ ImportTools
    \/ EmptyInput
    \/ Quit
    \/ Clear
    \/ PromptInterrupt
    \/ StartTurn
    \/ RespondToolUse
    \/ RespondEndTurn
    \/ RespondOther
    \/ RaiseAPIError
    \/ TurnInterrupt
    \/ SkipBlock
    \/ ToolCall
    \/ FinishRound
    \/ ExhaustIterations

Spec == Init /\ [][Next]_vars

(***************************************************************************)
(* Composition of the registry from arbitrary group contributions: the     *)
(* groups contribute names drawn from a small set, so that two groups may  *)
(* contribute the same name.                                               *)
(***************************************************************************)
ContributedNames == {"get_stock_data", "detect_market_regime", "get_stock_news"}

MarketGroups ==
    UNION {{[i \in 1..k |-> [name |-> names[i], handler |-> MarketFunctions[i]]] :
                names \in [1..k -> ContributedNames]} : k \in 1..MaxMarketTools}

InitRegistry ==
    /\ market_tools \in MarketGroups
    /\ regime_name \in ContributedNames
    /\ news_name \in ContributedNames
    /\ InitSession

SpecRegistry == InitRegistry /\ [][ImportTools]_vars

(***************************************************************************)
(* Vocabulary of the properties.                                           *)
(***************************************************************************)
InRun == pc \in {"awaiting", "tools"}

\* the inner for loop stands before a tool_use block
AtToolUse ==
    /\ pc = "tools"
    /\ block_idx <= Len(RoundContent)
    /\ RoundContent[block_idx].type = "tool_use"

ToolUses(content) == SelectSeq(content, LAMBDA b : b.type = "tool_use")
ToolResults(content) == SelectSeq(content, LAMBDA b : b.type = "tool_result")
Ids(blocks) == [i \in DOMAIN blocks |-> blocks[i].id]

IsToolResultsMessage(m) ==
    /\ m.role = "user"
    /\ \A i \in DOMAIN m.content : m.content[i].type = "tool_result"

IsPrefix(s, t) == Len(s) <= Len(t) /\ SubSeq(t, 1, Len(s)) = s

UnknownToolPayload(name) == <<"{", "error", "Unknown tool: ", name, "}">>

(***************************************************************************)
(* C1: execute_tool never raises and always returns a string, whatever the *)
(* tool name and the arguments: each call the loop is about to make        *)
(* returns a non-empty string for every outcome of the handler's body.     *)
(***************************************************************************)
C1_ExecuteToolNeverRaises ==
    AtToolUse =>
        \A env \in HandlerOutcomes :
            LET block == RoundContent[block_idx]
                result == execute_tool(block.name, block.input, env)
            IN result.raised = "none" /\ Len(result.value) > 0

(***************************************************************************)
(* C2: at every completion request, every tool_use block of an assistant   *)
(* message of the conversation sent has exactly one tool_result block with *)
(* its id in the user message right after that assistant message.          *)
(***************************************************************************)
Answered(conversation, i, id) ==
    /\ i < Len(conversation)
    /\ conversation[i + 1].role = "user"
    /\ Cardinality({k \in DOMAIN conversation[i + 1].content :
                        /\ conversation[i + 1].content[k].type = "tool_result"
                        /\ conversation[i + 1].content[k].id = id}) = 1

C2_EveryToolUseAnswered ==
    pc = "awaiting" =>
        \A i \in DOMAIN messages :
            messages[i].role = "assistant" =>
                \A j \in DOMAIN messages[i].content :
                    messages[i].content[j].type = "tool_use" =>
                        Answered(messages, i, messages[i].content[j].id)

(***************************************************************************)
(* C3: the user message appended after a tool_use response holds as many   *)
(* tool_result blocks as the response holds tool_use blocks, the i-th      *)
(* result carrying the id of the i-th tool_use block; a next request is    *)
(* issued only with that message appended.                                 *)
(***************************************************************************)
RoundsMatch(conversation) ==
    \A i \in 1..(Len(conversation) - 1) :
        (conversation[i].role = "assistant" /\ IsToolResultsMessage(conversation[i + 1]))
            => Ids(ToolResults(conversation[i + 1].content))
                  = Ids(ToolUses(conversation[i].content))

C3_ResultsMatchToolUses ==
    /\ RoundsMatch(messages)
    /\ RoundsMatch(conversation_history)
    /\ (pc = "awaiting" /\ iteration > 0) =>
            /\ Len(messages) >= 2
            /\ IsToolResultsMessage(messages[Len(messages)])
            /\ messages[Len(messages) - 1].role = "assistant"
            /\ Len(messages[Len(messages)].content)
                  = Len(ToolUses(messages[Len(messages) - 1].content))

\* a round of two tool calls has been answered, in order, and the next request issued
C3_Witness ==
    /\ pc = "awaiting"
    /\ iteration > 0
    /\ Len(messages[Len(messages)].content) = 2
    /\ messages[Len(messages)].content[1].id # messages[Len(messages)].content[2].id

(***************************************************************************)
(* C4: a run issues at most MAX_ITERATIONS completion requests, and a run  *)
(* all of whose responses asked for tools ends only by returning the       *)
(* sentinel after exactly MAX_ITERATIONS requests and tool rounds.         *)
(***************************************************************************)
AssistantCount(conversation) ==
    Cardinality({i \in DOMAIN conversation : conversation[i].role = "assistant"})

C4_AllToolUseRunsReachCeiling ==
    [][/\ (pc' = "awaiting") => (iteration' < MAX_ITERATIONS)
       /\ (pc = "tools" /\ pc' \notin {"awaiting", "tools"} /\ exc' # "KeyboardInterrupt")
            => /\ pc' = "prompt"
               /\ response_text' = MaxIterationsMessage
               /\ iteration + 1 = MAX_ITERATIONS
               /\ AssistantCount(conversation_history')
                    = AssistantCount(conversation_history) + MAX_ITERATIONS]_vars

(***************************************************************************)
(* C5: on an end_turn response run_agent returns the bodies of the text    *)
(* blocks of the response concatenated in block order, with the response   *)
(* appended as the last message of the returned conversation, and the run  *)
(* is over.                                                                *)
(***************************************************************************)
RECURSIVE TextsUpTo(_, _)
TextsUpTo(content, n) ==
    IF n = 0 THEN <<>>
    ELSE TextsUpTo(content, n - 1)
            \o (IF content[n].type = "text" THEN content[n].text ELSE <<>>)

C5_EndTurnReturnsTexts ==
    [][(pc = "awaiting" /\ stop_reason' = "end_turn") =>
          LET returned == conversation_history'
              last == returned[Len(returned)]
          IN /\ Len(returned) = Len(messages) + 1
             /\ SubSeq(returned, 1, Len(messages)) = messages
             /\ last.role = "assistant"
             /\ response_text' = TextsUpTo(last.content, Len(last.content))
             /\ (last.content = <<TextBlock(<<"A">>), TextBlock(<<"B">>)>>
                    => response_text' = <<"A", "B">>)
             /\ pc' = "prompt"
             /\ exc' = "none"]_vars

\* the response [Text("A"), Text("B")] with end_turn has been returned as "AB"
C5_Witness ==
    /\ pc = "prompt"
    /\ stop_reason = "end_turn"
    /\ response_text = <<"A", "B">>
    /\ conversation_history[Len(conversation_history)].content
          = <<TextBlock(<<"A">>), TextBlock(<<"B">>)>>

(***************************************************************************)
(* C6: on a stop reason other than tool_use and end_turn run_agent returns *)
(* at once, raising nothing and running no tool, a diagnostic string that  *)
(* embeds the stop reason, and the conversation accumulated so far.        *)
(***************************************************************************)
C6_AnomalousStopReturns ==
    [][(pc = "awaiting" /\ stop_reason' \notin {"none", "tool_use", "end_turn"}) =>
          /\ pc' = "prompt"
          /\ exc' = "none"
          /\ \E k \in DOMAIN response_text' : response_text'[k] = stop_reason'
          /\ response_text'[1] = UnexpectedStopPrefix
          /\ conversation_history' = messages]_vars

\* an anomalous stop after a completed tool round: the round is in the
\* conversation returned
C6_Witness ==
    /\ pc = "prompt"
    /\ stop_reason = "max_tokens"
    /\ response_text = <<UnexpectedStopPrefix, "max_tokens">>
    /\ Len(conversation_history) >= 3
    /\ IsToolResultsMessage(conversation_history[Len(conversation_history)])

(***************************************************************************)
(* C7: for a tool name that is no key of the registry, execute_tool        *)
(* returns the payload {"error": "Unknown tool: <name>"} naming that tool, *)
(* and the loop appends it as the tool_result of that call and goes on     *)
(* with the round.                                                         *)
(***************************************************************************)
C7_UnknownToolReported ==
    [][(/\ AtToolUse
        /\ RoundContent[block_idx].name \notin DOMAIN TOOL_HANDLERS
        /\ exc' # "KeyboardInterrupt") =>
          LET block == RoundContent[block_idx]
          IN /\ pc' = "tools"
             /\ exc' = "none"
             /\ block_idx' = block_idx + 1
             /\ messages' = messages
             /\ tool_results' = Append(tool_results,
                                       ToolResultBlock(block.id,
                                                       UnknownToolPayload(block.name)))]_vars

\* the payload of an unknown tool has been fed back and the next request issued
C7_Witness ==
    /\ pc = "awaiting"
    /\ iteration > 0
    /\ \E k \in DOMAIN messages[Len(messages)].content :
          messages[Len(messages)].content[k].text = UnknownToolPayload("no_such_tool")

(***************************************************************************)
(* C8: composing the registry from the tool groups never silently keeps    *)
(* one handler and drops another contributed under the same name: once the *)
(* composition has gone through, every contributed handler is registered   *)
(* under its name and the schema catalog maps one-to-one to the handlers.  *)
(***************************************************************************)
C8_NoContributionDropped ==
    pc # "import" =>
        /\ \A c \in Contributions :
              c[1] \in DOMAIN TOOL_HANDLERS /\ TOOL_HANDLERS[c[1]] = c[2]
        /\ Len(TOOL_SCHEMAS) = Cardinality(DOMAIN TOOL_HANDLERS)
        /\ \A i \in DOMAIN TOOL_SCHEMAS : TOOL_SCHEMAS[i] \in DOMAIN TOOL_HANDLERS

(***************************************************************************)
(* C9: a failing tool invocation never aborts run_agent: the loop appends  *)
(* a tool_result for the call and goes on; only failures of the completion *)
(* client call leave run_agent.                                            *)
(***************************************************************************)
C9_ToolFailuresStayInLoop ==
    [][/\ (AtToolUse /\ exc' # "KeyboardInterrupt") =>
            /\ pc' = "tools"
            /\ Len(tool_results') = Len(tool_results) + 1
            /\ tool_results'[Len(tool_results')].id = RoundContent[block_idx].id
       /\ (InRun /\ exc' \notin {"none", "KeyboardInterrupt"}) =>
            (pc = "awaiting" /\ exc' = "APIError")]_vars

(***************************************************************************)
(* C10: no outcome of a turn ends the session loop: after the turn main    *)
(* is back at the prompt, and the messages the conversation held before    *)
(* the turn are still in it, in the same order.                            *)
(***************************************************************************)
C10_SessionSurvivesTurn ==
    [][InRun =>
          /\ pc' \in {"awaiting", "tools", "prompt"}
          /\ IsPrefix(conversation_history, conversation_history')]_vars

(***************************************************************************)
(* C11: every tool_result block of a conversation sent or returned has, in *)
(* the assistant message right before its message, a tool_use block with   *)
(* the same id; and no result is collected during a round for an id the    *)
(* response of that round did not issue.                                   *)
(***************************************************************************)
IssuedBefore(conversation, i, id) ==
    /\ i > 1
    /\ conversation[i - 1].role = "assistant"
    /\ \E k \in DOMAIN conversation[i - 1].content :
          /\ conversation[i - 1].content[k].type = "tool_use"
          /\ conversation[i - 1].content[k].id = id

ResultsPreceded(conversation) ==
    \A i \in DOMAIN conversation :
        \A j \in DOMAIN conversation[i].content :
            conversation[i].content[j].type = "tool_result" =>
                IssuedBefore(conversation, i, conversation[i].content[j].id)

C11_ResultsHaveIssuedIds ==
    /\ ResultsPreceded(messages)
    /\ ResultsPreceded(conversation_history)
    /\ pc = "tools" =>
          \A j \in DOMAIN tool_results :
              \E k \in DOMAIN RoundContent :
                  /\ RoundContent[k].type = "tool_use"
                  /\ RoundContent[k].id = tool_results[j].id

\* a returned conversation holds the results of a round of two tool calls
C11_Witness ==
    /\ pc = "prompt"
    /\ \E i \in DOMAIN conversation_history :
          /\ IsToolResultsMessage(conversation_history[i])
          /\ Len(conversation_history[i].content) = 2

(***************************************************************************)
(* C12: the conversation only grows by appending.  Within a run each step  *)
(* leaves the messages already there in place, so every request sends an   *)
(* extension of the one sent before; the first request extends the         *)
(* conversation passed in by the new user message; the conversation        *)
(* returned has the conversation passed in, and the last one sent, as a    *)
(* prefix; and the list the caller passed in keeps its contents for as     *)
(* long as the call runs and when the call raises into main.               *)
(***************************************************************************)
C12_AppendOnly ==
    [][/\ (InRun /\ InRun') =>
              /\ IsPrefix(messages, messages')
              /\ conversation_history' = conversation_history
       /\ (pc = "prompt" /\ pc' = "awaiting") =>
              /\ IsPrefix(conversation_history, messages')
              /\ Len(messages') = Len(conversation_history) + 1
              /\ conversation_history' = conversation_history
       /\ (InRun /\ pc' = "prompt" /\ exc' = "none") =>
              /\ IsPrefix(conversation_history, conversation_history')
              /\ IsPrefix(messages, conversation_history')
       /\ (InRun /\ pc' = "prompt" /\ exc' # "none") =>
              conversation_history' = conversation_history
      ]_vars

\* a second run, given a conversation of a tool round, has returned a longer one
C12_Witness ==
    /\ pc = "prompt"
    /\ exc = "none"
    /\ turns = 2
    /\ Len(conversation_history) >= 6
    /\ IsToolResultsMessage(conversation_history[3])
    /\ ~IsToolResultsMessage(conversation_history[5])
    /\ conversation_history[5].role = "user"

(***************************************************************************)
(* C13: the loop is strictly sequential.  A request that follows a round   *)
(* is issued only when every block of the response has been processed,     *)
(* every tool call of the round has returned its result, and the one user  *)
(* message holding all those results is appended by that very step; a tool *)
(* call returns or raises only while no request is outstanding; and while  *)
(* a request is outstanding no other request is issued.                    *)
(***************************************************************************)
C13_StrictlySequential ==
    [][/\ (pc = "tools" /\ pc' = "awaiting") =>
              /\ block_idx > Len(RoundContent)
              /\ Ids(tool_results) = Ids(ToolUses(RoundContent))
              /\ messages' = Append(messages, ToolResultsMessage(tool_results))
       /\ (Len(tool_results') > Len(tool_results) \/ (InRun /\ pc' = "crashed")) =>
              /\ pc = "tools"
              /\ pc' # "awaiting"
       /\ pc = "awaiting" =>
              /\ pc' \in {"awaiting", "tools", "prompt"}
              /\ pc' = "awaiting" => messages' = messages
              /\ Len(tool_results') <= Len(tool_results)
      ]_vars

\* the third request of a run is outstanding, each of the two rounds before it
\* having made one tool call
C13_Witness ==
    /\ pc = "awaiting"
    /\ iteration = 2
    /\ Len(messages[Len(messages)].content) = 1
    /\ Len(messages[Len(messages) - 2].content) = 1
    /\ messages[Len(messages)].content[1].id # messages[Len(messages) - 2].content[1].id

(***************************************************************************)
(* C14: in every completion request the message list strictly alternates   *)
(* user, assistant, user, ..., beginning and ending with a user message,   *)
(* whatever the way the earlier runs of the session ended.                 *)
(***************************************************************************)
Alternates(conversation) ==
    \A i \in DOMAIN conversation :
        conversation[i].role = (IF i % 2 = 1 THEN "user" ELSE "assistant")

C14_RolesAlternate ==
    pc = "awaiting" => (Alternates(messages) /\ Len(messages) % 2 = 1)

(***************************************************************************)
(* C14, as the code has it: every request begins and ends with a user      *)
(* message and an assistant message is always followed by a user message;  *)
(* two user messages are adjacent only where the second is the plain       *)
(* message that opens a run; and a run given an empty conversation, or an  *)
(* alternating one that ends with an assistant message, sends strictly     *)
(* alternating lists only.                                                 *)
(***************************************************************************)
OpensRun(m) ==
    /\ m.role = "user"
    /\ Len(m.content) = 1
    /\ m.content[1].type = "str"

C14_AlternatesAfterFinalAnswers ==
    pc = "awaiting" =>
        /\ messages[1].role = "user"
        /\ messages[Len(messages)].role = "user"
        /\ \A i \in 1..(Len(messages) - 1) :
              /\ messages[i].role = "assistant" => messages[i + 1].role = "user"
              /\ (messages[i].role = "user" /\ messages[i + 1].role = "user")
                    => OpensRun(messages[i + 1])
        /\ (Alternates(conversation_history) /\ Len(conversation_history) % 2 = 0)
              => (Alternates(messages) /\ Len(messages) % 2 = 1)

\* the second request of a run that follows a run ended by a final answer
C14_Witness ==
    /\ pc = "awaiting"
    /\ iteration = 1
    /\ Len(conversation_history) >= 2
    /\ Alternates(conversation_history)
    /\ Len(conversation_history) % 2 = 0
    /\ Len(messages) = Len(conversation_history) + 3

(***************************************************************************)
(* C15: a run given n messages that returns after k completed tool rounds  *)
(* returns the n messages, the new user message and k pairs of assistant   *)
(* message and tool results message, followed by the final assistant       *)
(* message when the run ends with end_turn (n + 2k + 2 messages, k below   *)
(* MAX_ITERATIONS) and by nothing when it ends by an anomalous stop        *)
(* (n + 1 + 2k messages, the response not appended); a run that reaches    *)
(* the ceiling returns n + 1 + 2 * MAX_ITERATIONS messages.                *)
(***************************************************************************)
RunShape(prior, returned, k) ==
    /\ Len(returned) >= Len(prior) + 1 + 2 * k
    /\ IsPrefix(prior, returned)
    /\ OpensRun(returned[Len(prior) + 1])
    /\ \A j \in 1..k :
          /\ returned[Len(prior) + 2 * j].role = "assistant"
          /\ IsToolResultsMessage(returned[Len(prior) + 2 * j + 1])

C15_ReturnedLength ==
    [][(InRun /\ pc' = "prompt" /\ exc' = "none") =>
          LET n == Len(conversation_history)
              k == iteration
              returned == conversation_history'
          IN /\ (pc = "awaiting" /\ stop_reason' = "end_turn") =>
                    /\ k < MAX_ITERATIONS
                    /\ Len(returned) = n + 2 * k + 2
                    /\ RunShape(conversation_history, returned, k)
                    /\ returned[Len(returned)].role = "assistant"
             /\ (pc = "awaiting" /\ stop_reason' # "end_turn") =>
                    /\ k < MAX_ITERATIONS
                    /\ Len(returned) = n + 1 + 2 * k
                    /\ RunShape(conversation_history, returned, k)
                    /\ returned = messages
             /\ pc = "tools" =>
                    /\ response_text' = MaxIterationsMessage
                    /\ Len(returned) = n + 1 + 2 * MAX_ITERATIONS
                    /\ RunShape(conversation_history, returned, MAX_ITERATIONS)
      ]_vars

\* a run given a non-empty conversation has reached the ceiling and returned
C15_Witness ==
    /\ pc = "prompt"
    /\ exc = "none"
    /\ response_text = MaxIterationsMessage
    /\ Len(conversation_history) > 1 + 2 * MAX_ITERATIONS

(***************************************************************************)
(* C16: a turn that fails with an API error or is interrupted, at a        *)
(* request or during a round, leaves conversation_history as it was before *)
(* the turn and the session at its prompt; the next turn sends that        *)
(* conversation followed by its own user message; and in a session that    *)
(* goes on, only 'clear' shortens the conversation.                        *)
(***************************************************************************)
C16_FailedTurnLeavesHistory ==
    [][/\ (InRun /\ exc' \in {"APIError", "KeyboardInterrupt"}) =>
              /\ pc' = "prompt"
              /\ conversation_history' = conversation_history
       /\ (pc = "prompt" /\ pc' = "awaiting") =>
              /\ conversation_history' = conversation_history
              /\ SubSeq(messages', 1, Len(messages') - 1) = conversation_history
              /\ OpensRun(messages'[Len(messages')])
       /\ (pc' \notin {"exited", "crashed"}
             /\ Len(conversation_history') < Len(conversation_history)) =>
              /\ pc = "prompt"
              /\ pc' = "prompt"
              /\ conversation_history' = <<>>
              /\ exc' = "none"
      ]_vars

\* the second turn of a session was interrupted: the conversation of the first
\* turn, tool round included, is what the session holds
C16_Witness ==
    /\ pc = "prompt"
    /\ exc = "KeyboardInterrupt"
    /\ turns = 2
    /\ Len(conversation_history) >= 4
    /\ IsToolResultsMessage(conversation_history[3])

=============================================================================
